---- MODULE Spec2Model ----
(***************************************************************************)
(* Model of the grading backend: grading.py (download_from_url,            *)
(* prepare_document, analyze_document, process_document) and app.py        *)
(* (the /grade handler).                                                   *)
(*                                                                         *)
(* Two specifications:                                                     *)
(*   SpecNorm  the parsing / normalisation / validation part of            *)
(*             analyze_document, applied to one structuring response.      *)
(*   Spec      concurrent /grade requests running process_document over a  *)
(*             shared temporary-file directory.                            *)
(***************************************************************************)
EXTENDS Integers, Sequences, FiniteSets, TLC

(* ----------------------------- bounds ---------------------------------- *)
MaxStrLen == 3
MaxListLen == 2
MaxArr == 2

(* the score range named by the prompts of grading.py *)
MinMarks == 0
MaxMarks == 100

(* ------------------------- JSON / Python values ------------------------ *)
(* A value is a record [t, n, s, l]: t is the type tag, n the integer of   *)
(* an int, s the characters of a str, l the elements of a list.            *)
(* t = "absent" stands for a key that is not in the dict.                  *)
Chars == {"0", "1", "-", " ", "_", "x"}
Digits == {"0", "1", "2", "3", "4", "5", "6", "7", "8", "9"}

Absent == [t |-> "absent", n |-> 0, s |-> <<>>, l |-> <<>>]
Null == [t |-> "null", n |-> 0, s |-> <<>>, l |-> <<>>]
IntV(i) == [t |-> "int", n |-> i, s |-> <<>>, l |-> <<>>]
StrV(str) == [t |-> "str", n |-> 0, s |-> str, l |-> <<>>]
ListV(elems) == [t |-> "list", n |-> 0, s |-> <<>>, l |-> elems]

SeqsUpTo(S, k) == UNION {[1..m -> S] : m \in 0..k}

(* ------------------------------ int(x) --------------------------------- *)
RECURSIVE LStrip(_)
LStrip(s) == IF s # <<>> /\ Head(s) = " " THEN LStrip(Tail(s)) ELSE s

RECURSIVE RStrip(_)
RStrip(s) ==
    IF s # <<>> /\ s[Len(s)] = " " THEN RStrip(SubSeq(s, 1, Len(s) - 1)) ELSE s

Strip(s) == RStrip(LStrip(s))

DigitVal(c) ==
    CASE c = "0" -> 0 [] c = "1" -> 1 [] c = "2" -> 2 [] c = "3" -> 3
      [] c = "4" -> 4 [] c = "5" -> 5 [] c = "6" -> 6 [] c = "7" -> 7
      [] c = "8" -> 8 [] c = "9" -> 9

(* the digit part of a base-10 literal: digits, single underscores between *)
DigitsOK(d) ==
    /\ d # <<>>
    /\ \A i \in 1..Len(d) : d[i] \in Digits \cup {"_"}
    /\ d[1] # "_"
    /\ d[Len(d)] # "_"
    /\ \A i \in 1..(Len(d) - 1) : ~(d[i] = "_" /\ d[i + 1] = "_")

RECURSIVE DigitsValue(_, _)
DigitsValue(d, acc) ==
    IF d = <<>> THEN acc
    ELSE IF Head(d) = "_" THEN DigitsValue(Tail(d), acc)
    ELSE DigitsValue(Tail(d), 10 * acc + DigitVal(Head(d)))

(* int(str): strip, optional sign, digits *)
ParseInt(str) ==
    LET b == Strip(str)
        signed == b # <<>> /\ Head(b) \in {"-", "+"}
        d == IF signed THEN Tail(b) ELSE b
    IN  IF DigitsOK(d)
        THEN [exc |-> "none",
              n |-> IF signed /\ Head(b) = "-" THEN 0 - DigitsValue(d, 0)
                    ELSE DigitsValue(d, 0)]
        ELSE [exc |-> "ValueError", n |-> 0]

(* int(...) that falls back to 0 instead of raising *)
PyIntOrZero(v) ==
    CASE v.t = "int" -> [exc |-> "none", n |-> v.n]
      [] v.t = "str" -> [exc |-> "none", n |-> ParseInt(v.s).n]
      [] OTHER -> [exc |-> "none", n |-> 0]

PyInt(v) ==
    CASE v.t = "int" -> [exc |-> "none", n |-> v.n]
      [] v.t = "str" -> ParseInt(v.s)
      [] OTHER -> [exc |-> "TypeError", n |-> 0]

(* ------------------------------ str(x) --------------------------------- *)
DigitChar(k) ==
    CASE k = 0 -> "0" [] k = 1 -> "1" [] k = 2 -> "2" [] k = 3 -> "3"
      [] k = 4 -> "4" [] k = 5 -> "5" [] k = 6 -> "6" [] k = 7 -> "7"
      [] k = 8 -> "8" [] k = 9 -> "9"

RECURSIVE NatStr(_)
NatStr(k) == IF k < 10 THEN <<DigitChar(k)>>
             ELSE Append(NatStr(k \div 10), DigitChar(k % 10))

IntStr(i) == IF i < 0 THEN <<"-">> \o NatStr(0 - i) ELSE NatStr(i)

PyStr(v) ==
    CASE v.t = "str" -> v.s
      [] v.t = "int" -> IntStr(v.n)
      [] v.t = "null" -> <<"N", "o", "n", "e">>

(* ------------------------------ list(x) -------------------------------- *)
(* list(x or []): None turned into the empty list *)
PyListNoneEmpty(v) ==
    CASE v.t = "list" -> [exc |-> "none", l |-> v.l]
      [] v.t = "str" ->
            [exc |-> "none", l |-> [i \in 1..Len(v.s) |-> StrV(<<v.s[i]>>)]]
      [] v.t = "null" -> [exc |-> "none", l |-> <<>>]
      [] OTHER -> [exc |-> "TypeError", l |-> <<>>]

PyList(v) ==
    CASE v.t = "list" -> [exc |-> "none", l |-> v.l]
      [] v.t = "str" ->
            [exc |-> "none", l |-> [i \in 1..Len(v.s) |-> StrV(<<v.s[i]>>)]]
      [] OTHER -> [exc |-> "TypeError", l |-> <<>>]

(* dict.get(key, default) *)
Get(o, key, default) == IF o[key].t = "absent" THEN default ELSE o[key]

(* ------------------- analyze_document: lines 119-149 ------------------- *)
ListFields == {"remarks", "suggestions", "errors"}

(* the response text as tokens: an optional opening fence, the JSON body,  *)
(* an optional closing fence                                               *)
FenceJson == [tok |-> "fence_json", kind |-> "", items |-> <<>>]
Fence == [tok |-> "fence", kind |-> "", items |-> <<>>]
Body(kind, items) == [tok |-> "body", kind |-> kind, items |-> items]

StripFences(text) ==
    LET a == IF text # <<>> /\ Head(text) = FenceJson THEN Tail(text) ELSE text
    IN  IF a # <<>> /\ a[Len(a)] = Fence THEN SubSeq(a, 1, Len(a) - 1) ELSE a

(* json.loads: the text must be exactly one well-formed JSON body *)
JsonLoads(text) ==
    IF Len(text) = 1 /\ text[1].tok = "body" /\ text[1].kind # "malformed"
    THEN [exc |-> "none", data |-> text[1]]
    ELSE [exc |-> "JSONDecodeError", data |-> Body("malformed", <<>>)]

(* the five assignments under isinstance(data, dict); the first exception  *)
(* raised leaves the block                                                 *)
NormalizeDict(o) ==
    LET m == PyInt(Get(o, "marks", IntV(0)))
        r == PyList(Get(o, "remarks", ListV(<<>>)))
        g == PyList(Get(o, "suggestions", ListV(<<>>)))
        e == PyList(Get(o, "errors", ListV(<<>>)))
    IN  IF m.exc # "none" THEN [exc |-> m.exc, data |-> o]
        ELSE IF r.exc # "none" THEN [exc |-> r.exc, data |-> o]
        ELSE IF g.exc # "none" THEN [exc |-> g.exc, data |-> o]
        ELSE IF e.exc # "none" THEN [exc |-> e.exc, data |-> o]
        ELSE [exc |-> "none",
              data |-> [marks |-> IntV(m.n),
                        Name |-> StrV(PyStr(Get(o, "Name", StrV(<<>>)))),
                        remarks |-> ListV(r.l),
                        suggestions |-> ListV(g.l),
                        errors |-> ListV(e.l)]]

(* construction of one PaperCheckResult from an item, then model_dump *)
StrListOK(v) == v.t = "list" /\ \A i \in 1..Len(v.l) : v.l[i].t = "str"
StrListOf(v) == [i \in 1..Len(v.l) |-> v.l[i].s]
NoRecord == [Name |-> <<>>, marks |-> 0, remarks |-> <<>>,
             suggestions |-> <<>>, errors |-> <<>>]

(* the int field in lax mode: an int, or a str holding an integer literal *)
PydanticInt(v) ==
    CASE v.t = "int" -> [exc |-> "none", n |-> v.n]
      [] v.t = "str" -> ParseInt(v.s)
      [] OTHER -> [exc |-> "ValidationError", n |-> 0]

PaperCheckResult(item) ==
    LET m == PydanticInt(item.marks)
        nameOK == item.Name.t \in {"absent", "str"}
    IN  IF /\ m.exc = "none"
           /\ nameOK
           /\ \A f \in ListFields : StrListOK(item[f])
        THEN [exc |-> "none",
              rec |-> [Name |-> IF item.Name.t = "absent" THEN <<>>
                                ELSE item.Name.s,
                       marks |-> m.n,
                       remarks |-> StrListOf(item.remarks),
                       suggestions |-> StrListOf(item.suggestions),
                       errors |-> StrListOf(item.errors)]]
        ELSE [exc |-> "ValidationError", rec |-> NoRecord]

(* result dictionaries *)
NoError == [null |-> TRUE, prefix |-> "", cause |-> ""]
Error(prefix, cause) == [null |-> FALSE, prefix |-> prefix, cause |-> cause]
NoResults == [null |-> TRUE, items |-> <<>>]
Results(items) == [null |-> FALSE, items |-> items]

Failure(prefix, cause) ==
    [success |-> FALSE, error |-> Error(prefix, cause), results |-> NoResults]
Success(items) ==
    [success |-> TRUE, error |-> NoError, results |-> Results(items)]

(* lines 120-149: parse, normalise, wrap, construct *)
AnalyzeResponse(text) ==
    LET j == JsonLoads(StripFences(text))
        nd == IF j.data.kind = "object"
              THEN NormalizeDict(j.data.items[1])
              ELSE [exc |-> "none", data |-> Absent]
        items == IF j.data.kind = "array" THEN j.data.items
                 ELSE IF j.data.kind = "object" THEN <<nd.data>>
                 ELSE <<>>
        built == [i \in 1..Len(items) |-> PaperCheckResult(items[i])]
    IN  IF j.exc # "none"
        THEN Failure("Failed to parse AI response: ", j.exc)
        ELSE IF nd.exc # "none"
        THEN Failure("Invalid value conversion: ", nd.exc)
        ELSE IF j.data.kind = "scalar"
        THEN Failure("", "TypeError")
        ELSE IF \E i \in 1..Len(built) : built[i].exc # "none"
        THEN Failure("", "ValidationError")
        ELSE Success([i \in 1..Len(built) |-> built[i].rec])

(* ----------------------- inputs of SpecNorm ---------------------------- *)
MarksInts == {0 - 1, 0, 50, 100, 101}
Strings == SeqsUpTo(Chars, MaxStrLen)
ElemVals == {StrV(<<"x">>), StrV(<<"1">>), IntV(1)}

MarksVals == {Absent, Null, ListV(<<>>)}
             \cup {IntV(i) : i \in MarksInts}
             \cup {StrV(str) : str \in Strings}
MarksSmall == {Absent, IntV(50), StrV(<<"x">>)}
NameVals == {Absent, Null, StrV(<<>>), StrV(<<"x">>), IntV(1)}
NameSmall == {Absent, Null, StrV(<<"x">>)}
ListVals == {Absent, Null, IntV(1), StrV(<<"x", "1">>)}
            \cup {ListV(e) : e \in SeqsUpTo(ElemVals, MaxListLen)}
ListSmall == {Absent, Null, ListV(<<StrV(<<"x">>)>>)}
ListPair == {Absent, ListV(<<StrV(<<"x">>)>>)}

Obj(m, nm, r, g, e) ==
    [marks |-> m, Name |-> nm, remarks |-> r, suggestions |-> g, errors |-> e]

Objects ==
    {Obj(m, nm, r, g, e) : m \in MarksVals, nm \in NameSmall,
                           r \in ListSmall, g \in ListPair, e \in ListPair}
    \cup {Obj(m, nm, r, g, e) : m \in MarksSmall, nm \in NameVals,
                                r \in ListSmall, g \in ListSmall, e \in ListSmall}
    \cup {Obj(m, nm, r, g, e) : m \in MarksSmall, nm \in {Absent},
                                r \in ListVals, g \in ListSmall, e \in ListSmall}
    \cup {Obj(m, nm, r, g, e) : m \in MarksSmall, nm \in {Absent},
                                r \in ListSmall, g \in ListVals, e \in ListSmall}
    \cup {Obj(m, nm, r, g, e) : m \in MarksSmall, nm \in {Absent},
                                r \in ListSmall, g \in ListSmall, e \in ListVals}

ArrObjects ==
    {Obj(m, nm, r, ListV(<<>>), e) :
        m \in {Absent, IntV(50), IntV(7)},
        nm \in {Null, StrV(<<"x">>)},
        r \in {Absent, ListV(<<StrV(<<"x">>), StrV(<<"1">>)>>)},
        e \in {ListV(<<>>)}}

FencedTexts(b) ==
    {<<b>>, <<FenceJson, b>>, <<FenceJson, b, Fence>>, <<b, Fence>>,
     <<Fence, b, Fence>>}

Texts ==
    {<<Body("object", <<o>>)>> : o \in Objects}
    \cup {<<Body("array", a)>> : a \in SeqsUpTo(ArrObjects, MaxArr)}
    \cup UNION {FencedTexts(Body("object", <<o>>)) : o \in ArrObjects}
    \cup FencedTexts(Body("malformed", <<>>))
    \cup FencedTexts(Body("scalar", <<>>))

(* ------------------------- inputs of Spec ------------------------------ *)
NReq == 2
NTmp == 2

Requests == 1..NReq

(* a path is a directory and a number; NoPath is None / the empty string *)
NoPath == [dir |-> "", id |-> 0]
TmpPaths == {[dir |-> "/tmp", id |-> i] : i \in 1..NTmp}
DataPaths == {[dir |-> "/data", id |-> 1]}
Paths == TmpPaths \cup DataPaths

(* the value under "file_url": absent, null, an int, or a str split into   *)
(* its scheme prefix and the rest                                          *)
AbsentUrl == [k |-> "absent", scheme |-> "", path |-> NoPath, n |-> 0]
IntUrl(i) == [k |-> "int", scheme |-> "", path |-> NoPath, n |-> i]
StrUrl(scheme, path) == [k |-> "str", scheme |-> scheme, path |-> path, n |-> 0]

FileUrls ==
    {AbsentUrl, StrUrl("", NoPath), IntUrl(5),
     StrUrl("https://", NoPath),
     StrUrl("", [dir |-> "/data", id |-> 1]),
     StrUrl("", [dir |-> "/tmp", id |-> 1])}

Bodies ==
    {[json |-> "array", file_url |-> AbsentUrl]}
    \cup {[json |-> "object", file_url |-> u] : u \in FileUrls}
NoBody == [json |-> "", file_url |-> AbsentUrl]

GoodObject ==
    Obj(IntV(50), StrV(<<"x">>), ListV(<<StrV(<<"x">>)>>), ListV(<<>>),
        ListV(<<>>))
PipelineTexts ==
    {<<Body("object", <<GoodObject>>)>>,
     <<Body("malformed", <<>>)>>,
     <<Body("object", <<[GoodObject EXCEPT !.errors = Null]>>)>>,
     <<Body("array", <<GoodObject, [GoodObject EXCEPT !.marks = IntV(7)]>>)>>,
     <<Body("array", <<[GoodObject EXCEPT !.marks = Absent]>>)>>}

(* ------------------------------ state ---------------------------------- *)
VARIABLES
    text,            \* SpecNorm: the structured response text
    analysis,        \* SpecNorm: what analyze_document returned for it
    npc,             \* SpecNorm: "ready" or "done"
    pc,              \* per request: where the handler stands
    body,            \* per request: the JSON body of the POST
    made,            \* per request: the temporary file download_from_url opened
    temp_file,       \* per request: process_document's temp_file
    file_path,       \* per request: process_document's file_path
    initial_result,  \* per request: what prepare_document returned
    result,          \* per request: what process_document returned
    nret,            \* per request: how many times process_document returned
    response,        \* per request: the HTTP response
    fs,              \* the files that exist: path -> creator (0 none, -1 external)
    calls,           \* per request: the external calls made, in order
    raised,          \* per request: the steps that raised
    removals         \* the os.remove calls that succeeded: who removed whose file

nvars == <<text, analysis, npc>>
pvars == <<pc, body, made, temp_file, file_path, initial_result, result,
           nret, response, fs, calls, raised, removals>>
vars == <<nvars, pvars>>

NotRun == [success |-> FALSE, error |-> NoError, results |-> NoResults]
NoResponse == [status |-> 0, kind |-> "", error |-> NoError,
               results |-> NoResults]

InitPipeline ==
    /\ pc = [r \in Requests |-> "idle"]
    /\ body = [r \in Requests |-> NoBody]
    /\ made = [r \in Requests |-> NoPath]
    /\ temp_file = [r \in Requests |-> NoPath]
    /\ file_path = [r \in Requests |-> NoPath]
    /\ initial_result = [r \in Requests |-> NotRun]
    /\ result = [r \in Requests |-> NotRun]
    /\ nret = [r \in Requests |-> 0]
    /\ response = [r \in Requests |-> NoResponse]
    /\ fs = [p \in Paths |-> IF p \in DataPaths THEN 0 - 1 ELSE 0]
    /\ calls = [r \in Requests |-> <<>>]
    /\ raised = [r \in Requests |-> {}]
    /\ removals = {}

(* ------------------------------ SpecNorm ------------------------------- *)
InitNorm ==
    /\ text \in Texts
    /\ analysis = NotRun
    /\ npc = "ready"
    /\ InitPipeline

(* analyze_document from the parse of the structured response on *)
AnalyzeParsed ==
    /\ npc = "ready"
    /\ analysis' = AnalyzeResponse(text)
    /\ npc' = "done"
    /\ UNCHANGED <<text, pvars>>

NextNorm == AnalyzeParsed

SpecNorm == InitNorm /\ [][NextNorm]_vars

(* -------------------------------- Spec --------------------------------- *)
(* app.py:16, "not file_url" *)
Falsy(u) ==
    \/ u.k \in {"absent", "null"}
    \/ u.k = "str" /\ u.scheme = "" /\ u.path = NoPath
    \/ u.k = "int" /\ u.n = 0

(* grading.py:162, startswith(('http://', 'https://')) *)
IsUrl(u) == u.k = "str" /\ u.scheme \in {"http://", "https://"}

(* app.py:17, 21-24 *)
BadRequest ==
    [status |-> 400, kind |-> "error",
     error |-> Error("File URL is required", ""), results |-> NoResults]
HttpResponse(rec) ==
    IF rec.success
    THEN [status |-> 200, kind |-> "results", error |-> NoError,
          results |-> rec.results]
    ELSE [status |-> 500, kind |-> "error", error |-> rec.error,
          results |-> NoResults]
(* what the framework answers when the view function raises *)
Unhandled ==
    [status |-> 500, kind |-> "unhandled", error |-> NoError,
     results |-> NoResults]

(* grading.py:173, 178, 180, 183: the records process_document returns *)
(* a failure record that carries an empty list instead of None *)
ProcessFailureEmptyList(err) ==
    [success |-> FALSE, error |-> err, results |-> Results(<<>>)]
ProcessFailure(err) ==
    [success |-> FALSE, error |-> err, results |-> NoResults]
ProcessSuccess(res) ==
    [success |-> TRUE, error |-> NoError, results |-> res]

(* grading.py:43 *)
(* the exception re-raised without the download prefix *)
DownloadErrorBare(cause) == Error("", cause)
DownloadError(cause) == Error("Error downloading file: ", cause)

(* grading.py:72-79: what prepare_document returns *)
PrepareSuccess == [success |-> TRUE, error |-> NoError, results |-> NoResults]
(* the except branch returning success *)
PrepareFailureAsSuccess(cause) ==
    [success |-> TRUE, error |-> Error("Error preparing document: ", cause),
     results |-> NoResults]
PrepareFailure(cause) ==
    [success |-> FALSE, error |-> Error("Error preparing document: ", cause),
     results |-> NoResults]

(* grading.py:186-188: the file the finally block removes *)
(* the finally block removing file_path instead of temp_file *)
CleanupFilePath(r) == file_path[r]
CleanupTarget(r) == temp_file[r]

(* the step of analyze_document that raised, from the failure it returned *)
RaisedIn(out) ==
    IF out.success THEN {}
    ELSE IF out.error.cause = "JSONDecodeError" THEN {"parse"}
    ELSE IF out.error.cause \in {"ValueError", "TypeError"}
            /\ out.error.prefix # "" THEN {"convert"}
    ELSE {"construct"}

(* process_document returns rec: the finally block (184-190) runs, then    *)
(* grade answers (app.py:21-24)                                            *)
Return(r, rec, newcalls, newraised) ==
    LET t == CleanupTarget(r)
        c == calls[r] \o newcalls
    IN  /\ pc' = [pc EXCEPT ![r] = "done"]
        /\ result' = [result EXCEPT ![r] = rec]
        /\ nret' = [nret EXCEPT ![r] = @ + 1]
        /\ response' = [response EXCEPT ![r] = HttpResponse(rec)]
        /\ IF t # NoPath /\ fs[t] # 0
           THEN \/ /\ fs' = [fs EXCEPT ![t] = 0]
                   /\ removals' = removals \cup
                          {[by |-> r, owner |-> fs[t], path |-> t]}
                   /\ calls' = [calls EXCEPT ![r] = c \o <<"remove">>]
                   /\ raised' = [raised EXCEPT ![r] = @ \cup newraised]
                \/ /\ UNCHANGED <<fs, removals>>
                   /\ calls' = [calls EXCEPT ![r] = c \o <<"remove">>]
                   /\ raised' = [raised EXCEPT
                                   ![r] = @ \cup newraised \cup {"remove"}]
           ELSE /\ UNCHANGED <<fs, removals>>
                /\ calls' = [calls EXCEPT ![r] = c]
                /\ raised' = [raised EXCEPT ![r] = @ \cup newraised]

(* app.py:12-19 and grading.py:159-168 *)
Grade(r) ==
    /\ pc[r] = "idle"
    /\ \E b \in Bodies :
        /\ body' = [body EXCEPT ![r] = b]
        /\ \/ /\ b.json # "object"
              /\ pc' = [pc EXCEPT ![r] = "done"]
              /\ response' = [response EXCEPT ![r] = Unhandled]
              /\ UNCHANGED <<made, temp_file, file_path, initial_result,
                             result, nret, fs, calls, raised, removals>>
           \/ /\ b.json = "object"
              /\ Falsy(b.file_url)
              /\ pc' = [pc EXCEPT ![r] = "done"]
              /\ response' = [response EXCEPT ![r] = BadRequest]
              /\ UNCHANGED <<made, temp_file, file_path, initial_result,
                             result, nret, fs, calls, raised, removals>>
           \/ /\ b.json = "object"
              /\ ~Falsy(b.file_url)
              /\ b.file_url.k # "str"
              /\ Return(r, ProcessFailure(Error("", "AttributeError")),
                        <<>>, {"startswith"})
              /\ UNCHANGED <<made, temp_file, file_path, initial_result>>
           \/ /\ b.json = "object"
              /\ ~Falsy(b.file_url)
              /\ IsUrl(b.file_url)
              /\ pc' = [pc EXCEPT ![r] = "fetch"]
              /\ UNCHANGED <<made, temp_file, file_path, initial_result,
                             result, nret, response, fs, calls, raised,
                             removals>>
           \/ /\ b.json = "object"
              /\ ~Falsy(b.file_url)
              /\ b.file_url.k = "str"
              /\ ~IsUrl(b.file_url)
              /\ file_path' = [file_path EXCEPT ![r] = b.file_url.path]
              /\ pc' = [pc EXCEPT ![r] = "stage1"]
              /\ UNCHANGED <<made, temp_file, initial_result, result, nret,
                             response, fs, calls, raised, removals>>
    /\ UNCHANGED nvars

(* grading.py:26-36: the GET, raise_for_status, NamedTemporaryFile *)
Download(r) ==
    /\ pc[r] = "fetch"
    /\ \/ /\ Return(r, ProcessFailure(DownloadError("HTTPError")),
                    <<"get">>, {"download"})
          /\ UNCHANGED made
       \/ /\ \A p \in TmpPaths : fs[p] # 0
          /\ Return(r, ProcessFailure(DownloadError("FileExistsError")),
                    <<"get">>, {"download"})
          /\ UNCHANGED made
       \/ \E p \in TmpPaths :
             /\ fs[p] = 0
             /\ fs' = [fs EXCEPT ![p] = r]
             /\ made' = [made EXCEPT ![r] = p]
             /\ calls' = [calls EXCEPT ![r] = Append(@, "get")]
             /\ pc' = [pc EXCEPT ![r] = "write"]
             /\ UNCHANGED <<result, nret, response, raised, removals>>
    /\ UNCHANGED <<body, temp_file, file_path, initial_result, nvars>>

(* grading.py:37-43 and 164-165: the body is streamed into the file *)
DownloadBody(r) ==
    /\ pc[r] = "write"
    /\ \/ /\ Return(r, ProcessFailure(DownloadError("ChunkedEncodingError")),
                    <<>>, {"download"})
          /\ UNCHANGED <<temp_file, file_path>>
       \/ /\ temp_file' = [temp_file EXCEPT ![r] = made[r]]
          /\ file_path' = [file_path EXCEPT ![r] = made[r]]
          /\ pc' = [pc EXCEPT ![r] = "stage1"]
          /\ UNCHANGED <<result, nret, response, fs, calls, raised, removals>>
    /\ UNCHANGED <<body, made, initial_result, nvars>>

(* grading.py:171-173 with prepare_document (50-79): upload, generation *)
PrepareDocument(r) ==
    /\ pc[r] = "stage1"
    /\ \E step \in {"upload", "generate1", "none"} :
        LET ir == IF step = "none" THEN PrepareSuccess ELSE PrepareFailure(step)
            made_calls == IF step = "upload" THEN <<"upload">>
                          ELSE <<"upload", "generate1">>
        IN  /\ step # "upload" => fs[file_path[r]] # 0
            /\ initial_result' = [initial_result EXCEPT ![r] = ir]
            /\ IF ~ir.success
               THEN Return(r, ProcessFailure(ir.error), made_calls,
                           IF step = "none" THEN {} ELSE {step})
               ELSE /\ pc' = [pc EXCEPT ![r] = "stage2"]
                    /\ calls' = [calls EXCEPT ![r] = @ \o made_calls]
                    /\ raised' = [raised EXCEPT
                            ![r] = @ \cup IF step = "none" THEN {} ELSE {step}]
                    /\ UNCHANGED <<result, nret, response, fs, removals>>
    /\ UNCHANGED <<body, made, temp_file, file_path, nvars>>

(* grading.py:176-180 with analyze_document (86-152) *)
AnalyzeDocument(r) ==
    /\ pc[r] = "stage2"
    /\ IF ~initial_result[r].success
       THEN Return(r, ProcessFailure(initial_result[r].error), <<>>, {})
       ELSE \/ Return(r, ProcessFailure(Error("", "generate2")),
                      <<"generate2">>, {"generate2"})
            \/ \E t \in PipelineTexts :
                 LET out == AnalyzeResponse(t)
                 IN  Return(r,
                            IF out.success THEN ProcessSuccess(out.results)
                            ELSE ProcessFailure(out.error),
                            <<"generate2">>, RaisedIn(out))
    /\ UNCHANGED <<body, made, temp_file, file_path, initial_result, nvars>>

Init ==
    /\ InitPipeline
    /\ text = <<>>
    /\ analysis = NotRun
    /\ npc = "off"

Next ==
    \E r \in Requests :
        \/ Grade(r)
        \/ Download(r)
        \/ DownloadBody(r)
        \/ PrepareDocument(r)
        \/ AnalyzeDocument(r)

Spec == Init /\ [][Next]_vars

(* ======================= properties of SpecNorm ======================== *)
(* the response is one bare JSON object *)
PlainObject ==
    Len(text) = 1 /\ text[1].tok = "body" /\ text[1].kind = "object"
InObject == text[1].items[1]
OutRecord == analysis.results.items[1]

(* classes of marks input, by the shape of the string alone *)
AllDigits(str) == str # <<>> /\ \A i \in 1..Len(str) : str[i] \in Digits
RECURSIVE DecimalValue(_)
DecimalValue(str) ==
    IF str = <<>> THEN 0
    ELSE 10 * DecimalValue(SubSeq(str, 1, Len(str) - 1))
         + DigitVal(str[Len(str)])
IsNumeral(v) ==
    /\ v.t = "str"
    /\ \/ AllDigits(v.s)
       \/ v.s # <<>> /\ Head(v.s) = "-" /\ AllDigits(Tail(v.s))
NumeralValue(v) ==
    IF Head(v.s) = "-" THEN 0 - DecimalValue(Tail(v.s)) ELSE DecimalValue(v.s)
NonNumeric(v) ==
    /\ v.t = "str"
    /\ \/ \A i \in 1..Len(v.s) : v.s[i] \notin Digits
       \/ \E i \in 1..Len(v.s) : v.s[i] \notin Digits \cup {"-", "+", "_", " "}
InRange(k) == k \in MinMarks..MaxMarks

StringList(v) == v.t = "list" /\ \A i \in 1..Len(v.l) : v.l[i].t = "str"
ListsWellFormed(o) ==
    \A f \in ListFields : o[f].t = "absent" \/ StringList(o[f])
MarksWellFormed(o) == o.marks.t \in {"absent", "int"} \/ IsNumeral(o.marks)

C4_NameDefaultsToEmpty ==
    (/\ npc = "done" /\ PlainObject
     /\ InObject.Name.t \in {"absent", "null"}
     /\ analysis.success)
    => OutRecord.Name = <<>>

(* C9 as stated: the array [o] has the outcome of the object o, and an     *)
(* array of n objects gives n results, the i-th built from the i-th.       *)
PlainArray ==
    Len(text) = 1 /\ text[1].tok = "body" /\ text[1].kind = "array"
SameOutcome(a, b) == a.success = b.success /\ a.results = b.results
C9_ArrayLikeObject ==
    (npc = "done" /\ PlainArray) =>
        LET items == text[1].items
        IN  /\ Len(items) = 1 =>
                SameOutcome(analysis,
                            AnalyzeResponse(<<Body("object", items)>>))
            /\ analysis.success =>
                /\ Len(analysis.results.items) = Len(items)
                /\ \A i \in 1..Len(items) :
                      Success(<<analysis.results.items[i]>>)
                        = AnalyzeResponse(<<Body("array", <<items[i]>>)>>)

(* ========================= properties of Spec ========================== *)
Returned(r) == nret[r] > 0
UrlRequest(r) == IsUrl(body[r].file_url)
AiCalls == {"upload", "generate1", "generate2"}
Made(r) == {calls[r][i] : i \in 1..Len(calls[r])}
FailureRecord(rec) ==
    /\ rec.success = FALSE
    /\ rec.results = NoResults
    /\ rec.error.null = FALSE
SuccessRecord(rec) ==
    /\ rec.success = TRUE
    /\ rec.results.null = FALSE
    /\ rec.error = NoError

(* C1 as stated: when process_document returns for a URL reference, the    *)
(* temporary file created for the request no longer exists, on every exit  *)
(* path.                                                                   *)
C1_TempFileGone ==
    \A r \in Requests :
        (pc[r] = "done" /\ UrlRequest(r) /\ made[r] # NoPath)
            => fs[made[r]] # r

(* C5 as stated: whichever step raises, the temp-file deletion included,   *)
(* process_document returns one failure record with success false, results *)
(* null and an error message.                                              *)
C5_EveryExceptionFails ==
    \A r \in Requests :
        raised[r] # {} =>
            /\ pc[r] = "done"
            /\ nret[r] = 1
            /\ FailureRecord(result[r])

(* C5 amended: no exception escapes process_document and it returns one    *)
(* record per call; an exception raised by the download, the upload,       *)
(* either generation call, the parsing or the record construction gives a  *)
(* failure record with success false, results null and an error message;   *)
(* an exception raised by the temp-file deletion is swallowed and leaves   *)
(* the record as it was, a success record when no other step raised.       *)
C5_NoExceptionEscapes ==
    \A r \in Requests :
        /\ raised[r] # {} => (pc[r] = "done" /\ Returned(r))
        /\ Returned(r) =>
            /\ nret[r] = 1
            /\ pc[r] = "done"
            /\ raised[r] \ {"remove"} # {} => FailureRecord(result[r])
            /\ raised[r] \ {"remove"} = {} => SuccessRecord(result[r])

C5_Witness ==
    \E r \in Requests :
        /\ raised[r] = {"remove"}
        /\ SuccessRecord(result[r])
        /\ \E q \in Requests : "construct" \in raised[q]
                               /\ FailureRecord(result[q])

(* C6: when the download of a URL reference fails, process_document        *)
(* returns a failure whose message is the download-error message, and no   *)
(* AI service call is made during the request.                             *)
C6_DownloadFailureSkipsAi ==
    \A r \in Requests :
        "download" \in raised[r] =>
            /\ pc[r] = "done"
            /\ FailureRecord(result[r])
            /\ result[r].error.prefix = "Error downloading file: "
            /\ Made(r) \cap AiCalls = {}

C6_Witness ==
    \E r \in Requests :
        /\ pc[r] = "done"
        /\ result[r].error.cause = "HTTPError"
        /\ response[r].status = 500

(* C7: the stages run in the order fetch, stage 1, stage 2, each at most   *)
(* once; the stage-2 call is made only after stage 1 succeeded; a stage-1  *)
(* failure is returned as it is without the stage-2 call; a request ends   *)
(* in exactly one of Succeeded and Failed.                                 *)
Rank(c) ==
    CASE c = "get" -> 1 [] c = "upload" -> 2 [] c = "generate1" -> 3
      [] c = "generate2" -> 4 [] c = "remove" -> 5
Stage1Failed(r) == raised[r] \cap {"upload", "generate1"} # {}
C7_StageOrder ==
    \A r \in Requests :
        /\ \A i, j \in 1..Len(calls[r]) :
              i < j => Rank(calls[r][i]) < Rank(calls[r][j])
        /\ "generate2" \in Made(r) =>
              /\ {"upload", "generate1"} \subseteq Made(r)
              /\ ~Stage1Failed(r)
        /\ Stage1Failed(r) =>
              /\ pc[r] = "done"
              /\ FailureRecord(result[r])
              /\ result[r].error.prefix = "Error preparing document: "
              /\ result[r].error.cause \in raised[r]
              /\ "generate2" \notin Made(r)
        /\ nret[r] <= 1
        /\ Returned(r) =>
              /\ pc[r] = "done"
              /\ SuccessRecord(result[r]) \/ FailureRecord(result[r])
              /\ ~(SuccessRecord(result[r]) /\ FailureRecord(result[r]))

C7_Witness ==
    \E r, q \in Requests :
        /\ pc[r] = "done" /\ "generate1" \in raised[r]
        /\ calls[r] = <<"get", "upload", "generate1", "remove">>
        /\ pc[q] = "done" /\ SuccessRecord(result[q])
        /\ calls[q] = <<"upload", "generate1", "generate2">>

(* C8 as stated: every POST /grade is answered with one of three           *)
(* responses: 400 with the fixed message when file_url is missing or       *)
(* empty, without the pipeline running; 200 with the results when the      *)
(* pipeline succeeds; 500 with a flat error body when it fails.            *)
UrlMissing(b) ==
    \/ b.json # "object"
    \/ b.file_url.k \in {"absent", "null"}
    \/ b.file_url = StrUrl("", NoPath)
C8_ThreeResponses ==
    \A r \in Requests :
        pc[r] = "done" =>
            /\ \/ /\ response[r] = BadRequest
                  /\ UrlMissing(body[r])
                  /\ ~Returned(r)
               \/ /\ response[r].status = 200
                  /\ response[r].kind = "results"
                  /\ Returned(r) /\ result[r].success
                  /\ response[r].results = result[r].results
               \/ /\ response[r].status = 500
                  /\ response[r].kind = "error"
                  /\ response[r].error.null = FALSE
                  /\ Returned(r) /\ ~result[r].success
                  /\ response[r].error = result[r].error
            /\ UrlMissing(body[r]) => response[r] = BadRequest

(* C10: process_document removes only a temporary file its own call        *)
(* created: concurrent URL requests hold distinct temporary files, no      *)
(* cleanup removes another request's file, and a local-path request        *)
(* removes nothing and leaves the file at its path in place.               *)
Holding(r) == pc[r] \in {"write", "stage1", "stage2"} /\ made[r] # NoPath
C10_OwnTempFileOnly ==
    /\ \A d \in removals :
          /\ d.by = d.owner
          /\ UrlRequest(d.by)
          /\ d.path = made[d.by]
    /\ \A r \in Requests : Holding(r) => fs[made[r]] = r
    /\ \A r, q \in Requests :
          (r # q /\ Holding(r) /\ Holding(q)) => made[r] # made[q]
    /\ \A p \in DataPaths : fs[p] = 0 - 1
    /\ \A r \in Requests :
          (pc[r] # "idle" /\ ~UrlRequest(r)) => "remove" \notin Made(r)

C10_Witness ==
    \/ \E r, q \in Requests :
          /\ r # q
          /\ [by |-> r, owner |-> r, path |-> made[r]] \in removals
          /\ Holding(q)
          /\ fs[made[r]] = q
    \/ \E r, q \in Requests :
          /\ r # q
          /\ pc[r] = "done" /\ Returned(r) /\ ~UrlRequest(r)
          /\ body[r].file_url.path \in TmpPaths
          /\ Made(r) # {}
          /\ Holding(q)
          /\ fs[body[r].file_url.path] = q

====
